---- MODULE Spec2Model ----
(***************************************************************************)
(* The realtime session bridge of server/src/websocket: one client         *)
(* connection (clientHandler.ts), the Live Sessions it creates             *)
(* (geminiClient.ts) and the Fallback Sessions it creates                  *)
(* (geminiTextClient.ts).                                                  *)
(*                                                                         *)
(* Scheduling follows the Node.js event loop.  A step of the model is one  *)
(* callback run to its next suspension point.  A continuation whose        *)
(* awaited promise is already settled (await getSystemInstruction(), which *)
(* only reads a file synchronously, and the continuation of a settled      *)
(* connect() promise) is a pending microtask: it runs before any further   *)
(* transport event, timer or tool completion.  The only callbacks that can *)
(* run while such a continuation is pending are the handlers of further    *)
(* client frames delivered by the same socket read (batchOpen).            *)
(***************************************************************************)
EXTENDS Integers, Sequences, FiniteSets, TLC

\* Number of initializeGemini invocations of one connection (each creates
\* at most one GeminiClient and at most one GeminiTextClient, both named by
\* the invocation's index).
MaxInits == 2

Ids == 1..MaxInits

\* Number of upstream tool-call frames delivered to the Live Sessions.
MaxFrames == 1

\* Number of function calls in one tool-call frame.
MaxCalls == 2

\* Number of content parts in one response of the fallback endpoint.
MaxParts == 2

\* Number of client text messages.
MaxTexts == 2

FrameIds == 1..MaxFrames
TextIds == 1..MaxTexts

\* The tools whose calls the session manager reports differently
\* (clientHandler.ts:77 and :95): update_itinerary may carry an itinerary,
\* poi_search is a data-fetching tool.
ToolNames == {"update_itinerary", "poi_search"}

\* All sequences over S of length lo..hi.
SeqsOf(S, lo, hi) == UNION {[1..n -> S] : n \in lo..hi}

\* The functionCalls of a tool-call frame.
ToolFrames == SeqsOf(ToolNames, 1, MaxCalls)

\* What a dispatch through executeToolCall can end with: a result that
\* carries an itinerary (update_itinerary only), any other result, or an
\* exception.
Outcomes(name) ==
  IF name = "update_itinerary" THEN {"itinerary", "plain", "throw"} ELSE {"plain", "throw"}

\* What a request to the fallback endpoint can end with: a failure of the
\* transport or of the decoding, a body with an error field, a body without
\* candidates, or the parts of the first candidate.
Responses ==
  {<<"fail">>, <<"error">>, <<"empty">>} \cup
  {<<"parts", ps>> : ps \in SeqsOf({"text"} \cup ToolNames, 0, MaxParts)}

VARIABLES
  geminiClient,       \* clientHandler.ts:23  0 = null, else the index of a GeminiClient
  geminiTextClient,   \* clientHandler.ts:24  0 = null, else the index of a GeminiTextClient
  isSessionActive,    \* clientHandler.ts:25
  isClientConnected,  \* clientHandler.ts:26
  isInitializing,     \* clientHandler.ts:27
  useTextFallback,    \* clientHandler.ts:28
  clientRS,           \* clientWs.readyState
  initPc,             \* position of each initializeGemini invocation
  sess,               \* the GeminiClient objects and their transports
  batchOpen,          \* client frames of the current socket read are still being delivered
  frames,             \* the tool-call frames being handled by Live Sessions
  hist,               \* conversationHistory of each GeminiTextClient
  turns,              \* the sendText calls of the GeminiTextClients
  nText,              \* number of client text messages handled
  ctl,                \* the last start, stop or reset handled ("none" before the first)
  fresh,              \* a reset was handled in ready fallback mode, and no user turn was
                      \* sent to a Fallback Session since
  fbTried,            \* times each invocation entered the fallback construction
  lastAct,            \* the callback that ran in the last step
  lastOut,            \* messages sent to the client by the last step
  lastUp,             \* frames sent upstream by the last step
  wire,               \* what each Live Session's transport has carried upstream so far
  currentItinerary,   \* toolExecutor.ts:8   <<>> = null, else <<the itinerary>>
  poiCoordinates,     \* toolExecutor.ts:11  the names that have coordinates
  own,                \* the itinerary connection "A" would hold if only its own calls
                      \* had reached the dispatcher
  lastCall            \* the last call of the dispatcher and its outcome

vars == <<geminiClient, geminiTextClient, isSessionActive, isClientConnected,
          isInitializing, useTextFallback, clientRS, initPc, sess, batchOpen,
          frames, hist, turns, nText, ctl, fresh, fbTried, lastAct, lastOut, lastUp, wire,
          currentItinerary, poiCoordinates, own, lastCall>>

mgrVars == <<geminiClient, geminiTextClient, isSessionActive, isClientConnected,
             isInitializing, useTextFallback>>

liveVars == <<frames>>

obsVars == <<ctl, fresh>>

textVars == <<hist, turns, nText>>

dispVars == <<currentItinerary, poiCoordinates, own, lastCall>>

\* The variables of the session bridge.
bridgeVars == <<geminiClient, geminiTextClient, isSessionActive, isClientConnected,
                isInitializing, useTextFallback, clientRS, initPc, sess, batchOpen,
                frames, hist, turns, nText, ctl, fresh, fbTried, lastAct, lastOut,
                lastUp, wire>>

\* A GeminiClient that has not been constructed yet.
NoSession ==
  [ws |-> FALSE, rs |-> "NONE", listeners |-> FALSE, isConnected |-> FALSE,
   isDisconnecting |-> FALSE, promise |-> "none", timer |-> FALSE]

\* A session whose connect() arms no timer.
NewSessionUntimed ==
  [ws |-> TRUE, rs |-> "CONNECTING", listeners |-> TRUE, isConnected |-> FALSE,
   isDisconnecting |-> FALSE, promise |-> "pending", timer |-> FALSE]

\* new GeminiClient(...) followed by connect(): the transport is created,
\* the four listeners are attached and the connect timer is armed.
NewSession ==
  [ws |-> TRUE, rs |-> "CONNECTING", listeners |-> TRUE, isConnected |-> FALSE,
   isDisconnecting |-> FALSE, promise |-> "pending", timer |-> TRUE]

MsgA(t, kind, i, arg) == [t |-> t, kind |-> kind, id |-> i, arg |-> arg]
Msg(t, kind, i) == MsgA(t, kind, i, <<>>)
Turn(role, k) == [role |-> role, n |-> k]
Frame(kind, i, f, arg) == [kind |-> kind, id |-> i, f |-> f, arg |-> arg]
NoFrame == [id |-> 0, fcs |-> <<>>, pos |-> 0, cb |-> <<>>, early |-> 0]
NoTurn == [tc |-> 0, pc |-> "none", cur |-> "", rest |-> <<>>,
           tools |-> 0, follow |-> 0, fail |-> 0, errs |-> 0]
Act(a, i) == [a |-> a, id |-> i]

\* sendToClient writing to the client socket whatever the connection flag
\* and the state of the socket.
sendToClientUnchecked(connected, m) ==
  <<m>>

\* sendToClient: the message is dropped unless the client is connected and
\* its socket is open.
sendToClient(connected, m) ==
  IF connected /\ clientRS = "OPEN" THEN <<m>> ELSE <<>>

\* GeminiClient.send: the frame is dropped unless this.ws is set and open.
send(s, i, f, arg) ==
  IF s.ws /\ s.rs = "OPEN" THEN <<Frame("live", i, f, arg)>> ELSE <<>>

\* A promise that every resolve()/reject() settles anew.
SettleAgain(s, how) ==
  [s EXCEPT !.promise = how]

\* resolve()/reject() of the connect promise: only the first settlement counts.
Settle(s, how) ==
  IF s.promise = "pending" THEN [s EXCEPT !.promise = how] ELSE s

\* GeminiClient.disconnect
disconnect(s) ==
  [s EXCEPT !.isDisconnecting = TRUE,
            !.ws = FALSE,
            !.listeners = IF s.ws THEN FALSE ELSE @,
            !.rs = IF s.ws /\ s.rs \in {"OPEN", "CONNECTING"} THEN "CLOSING" ELSE @,
            !.isConnected = FALSE]

\* A continuation that is ready to run as a microtask.
Pending(i) ==
  \/ initPc[i] \in {"sys1", "sys2"}
  \/ initPc[i] = "connect" /\ sess[i].promise # "pending"

Quiet == \A i \in Ids : ~Pending(i)

\* Microtasks run in the order they were queued.
FirstPending(i) == Pending(i) /\ \A j \in Ids : j < i => ~Pending(j)

Started == {i \in Ids : initPc[i] # "none"}

NextId == Cardinality(Started) + 1

\* A client frame can be handled when the socket is open and either nothing
\* is pending or the frame belongs to the socket read being delivered.
ClientCanSend == clientRS = "OPEN" /\ isClientConnected /\ (Quiet \/ batchOpen)

\* ---------------------------------------------------------------------
\* The tool dispatcher (server/src/mcp/toolExecutor.ts) and its itineraries.

\* Days of an itinerary.
MaxDays == 2

\* Activities of a day.
MaxActs == 2

DayNumbers == 1..MaxDays
PoiNames == {"fort", "lake"}

\* The client connections whose Live or Fallback Sessions call the
\* dispatcher; the module is loaded once for all of them.
Conns == {"A", "B"}

\* An activity.  lat stands for the coordinate pair lat, lon and is 0 when
\* the pair is missing; travel_time_to_next is 0 when the field is absent.
Activities == [poi_name : PoiNames, lat : {0, 1}, travel_time_to_next : {0, 10}]

\* The activity argument of updateItinerary, a Partial<Activity>: -1 is a
\* field that is not supplied, NoActivity is undefined.
NoActivity == [poi_name |-> "", lat |-> -1, travel_time_to_next |-> -1]
Partials == [poi_name : PoiNames, lat : {-1, 1}, travel_time_to_next : {-1}]

Days == [day_number : DayNumbers, activities : SeqsOf(Activities, 0, MaxActs)]
Itineraries == [days : SeqsOf(Days, 0, MaxDays)]

\* The itineraries a client hands over with the action set.
SetItineraries ==
  {[days |-> <<[day_number |-> 1, activities |-> <<a>>]>>] :
     a \in {x \in Activities : x.lat = 1 /\ x.travel_time_to_next = 0}}

NoCall == [conn |-> "", name |-> "", day |-> 0, success |-> FALSE, thrown |-> FALSE]

InitDispatcher ==
  /\ currentItinerary = <<>>
  /\ poiCoordinates = {}
  /\ own = <<>>
  /\ lastCall = NoCall

\* The connection handler has just accepted the client socket.
InitManager ==
  /\ geminiClient = 0
  /\ geminiTextClient = 0
  /\ isSessionActive = FALSE
  /\ isClientConnected = TRUE
  /\ isInitializing = TRUE
  /\ useTextFallback = FALSE
  /\ clientRS = "OPEN"
  /\ initPc = [i \in Ids |-> IF i = 1 THEN "sys1" ELSE "none"]
  /\ sess = [i \in Ids |-> NoSession]
  /\ batchOpen = FALSE
  /\ frames = [n \in FrameIds |-> NoFrame]
  /\ hist = [i \in Ids |-> <<>>]
  /\ turns = [k \in TextIds |-> NoTurn]
  /\ nText = 0
  /\ ctl = "none"
  /\ fresh = FALSE
  /\ fbTried = [i \in Ids |-> 0]
  /\ lastAct = Act("accept", 1)
  /\ lastOut = <<Msg("connecting", "mgr", 1)>>
  /\ lastUp = <<>>
  /\ wire = [i \in Ids |-> [setups |-> 0, first |-> "none"]]

Init == InitManager /\ InitDispatcher

\* What the transports have carried once the frames ups of a step are
\* written: per Live Session, the number of setup frames and the kind of
\* the first frame.
RECURSIVE Logged(_, _)
Logged(w, ups) ==
  IF ups = <<>>
    THEN w
    ELSE LET u == Head(ups)
             w1 == IF u.kind = "live"
                     THEN [w EXCEPT ![u.id] =
                             [setups |-> IF u.f = "setup" THEN @.setups + 1 ELSE @.setups,
                              first |-> IF @.first = "none" THEN u.f ELSE @.first]]
                     ELSE w
         IN Logged(w1, Tail(ups))

\* initializeGemini, lines 47-123: the continuation of the first await.
InitCreate(i) ==
  /\ initPc[i] = "sys1"
  /\ FirstPending(i)
  /\ IF ~isClientConnected
       THEN /\ initPc' = [initPc EXCEPT ![i] = "done"]
            /\ UNCHANGED <<geminiClient, sess>>
       ELSE /\ geminiClient' = i
            /\ sess' = [sess EXCEPT ![i] = NewSession]
            /\ initPc' = [initPc EXCEPT ![i] = "connect"]
  /\ batchOpen' = FALSE
  /\ lastAct' = Act("initCreate", i)
  /\ lastOut' = <<>>
  /\ lastUp' = <<>>
  /\ UNCHANGED <<obsVars, fbTried, geminiTextClient, isSessionActive, isClientConnected,
                 isInitializing, useTextFallback, clientRS, liveVars, textVars>>
  /\ wire' = Logged(wire, lastUp')
  /\ UNCHANGED dispVars

\* initializeGemini, lines 123-134: the continuation of await connect().
InitAfterConnect(i) ==
  /\ initPc[i] = "connect"
  /\ FirstPending(i)
  /\ isInitializing' = FALSE
  /\ IF sess[i].promise = "rejected" /\ isClientConnected
       THEN /\ useTextFallback' = TRUE
            /\ initPc' = [initPc EXCEPT ![i] = "sys2"]
            /\ fbTried' = [fbTried EXCEPT ![i] = @ + 1]
       ELSE /\ initPc' = [initPc EXCEPT ![i] = "done"]
            /\ UNCHANGED <<useTextFallback, fbTried>>
  /\ batchOpen' = FALSE
  /\ lastAct' = Act(IF sess[i].promise = "rejected" THEN "initCatch" ELSE "initDone", i)
  /\ lastOut' = <<>>
  /\ lastUp' = <<>>
  /\ UNCHANGED <<obsVars, geminiClient, geminiTextClient, isSessionActive,
                 isClientConnected, clientRS, sess, liveVars, textVars>>
  /\ wire' = Logged(wire, lastUp')
  /\ UNCHANGED dispVars

\* initializeGemini, lines 136-191: the Fallback Session is constructed.
InitFallback(i) ==
  /\ initPc[i] = "sys2"
  /\ FirstPending(i)
  /\ geminiTextClient' = i
  /\ hist' = [hist EXCEPT ![i] = <<>>]
  /\ isSessionActive' = TRUE
  /\ initPc' = [initPc EXCEPT ![i] = "done"]
  /\ batchOpen' = FALSE
  /\ lastAct' = Act("initFallback", i)
  /\ lastOut' = sendToClient(isClientConnected, Msg("ready", "mgr", i))
  /\ lastUp' = <<>>
  /\ UNCHANGED <<obsVars, fbTried, geminiClient, isClientConnected, isInitializing,
                 useTextFallback, clientRS, sess, liveVars, turns, nText>>
  /\ wire' = Logged(wire, lastUp')
  /\ UNCHANGED dispVars

\* ---------------------------------------------------------------------
\* Events of the transport of Live Session i (geminiClient.ts:87-138).
\* A handler runs only while the listeners are attached; what the transport
\* does after disconnect() has detached them is not observed.

\* sendSetupMessage writing the setup frame twice.
sendSetupMessageTwice(s, i) ==
  send(s, i, "setup", <<>>) \o send(s, i, "setup", <<>>)

\* GeminiClient.sendSetupMessage (geminiClient.ts:142-157)
sendSetupMessage(s, i) ==
  send(s, i, "setup", <<>>)

\* 'open' (lines 87-90): the setup frame is sent.
WsOpen(i) ==
  /\ Quiet
  /\ sess[i].listeners
  /\ sess[i].rs = "CONNECTING"
  /\ sess' = [sess EXCEPT ![i].rs = "OPEN"]
  /\ lastUp' = sendSetupMessage(sess'[i], i)
  /\ lastAct' = Act("wsOpen", i)
  /\ lastOut' = <<>>
  /\ batchOpen' = FALSE
  /\ UNCHANGED <<obsVars, fbTried, mgrVars, clientRS, initPc, liveVars, textVars>>
  /\ wire' = Logged(wire, lastUp')
  /\ UNCHANGED dispVars

\* 'message' carrying setupComplete (lines 92-103) with the onSetupComplete
\* callback of clientHandler.ts:53-56.
WsSetupComplete(i) ==
  /\ Quiet
  /\ sess[i].rs = "OPEN"
  /\ sess[i].listeners
  /\ sess' = [sess EXCEPT ![i] = Settle([sess[i] EXCEPT !.isConnected = TRUE], "resolved")]
  /\ isSessionActive' = TRUE
  /\ lastOut' = sendToClient(isClientConnected, Msg("ready", "live", i))
  /\ lastAct' = Act("wsSetupComplete", i)
  /\ lastUp' = <<>>
  /\ batchOpen' = FALSE
  /\ UNCHANGED <<obsVars, fbTried, geminiClient, geminiTextClient, isClientConnected,
                 isInitializing, useTextFallback, clientRS, initPc, liveVars, textVars>>
  /\ wire' = Logged(wire, lastUp')
  /\ UNCHANGED dispVars

\* The 'error' listener (lines 109-116) on the session object.
errorListener(s) ==
  IF ~s.isDisconnecting THEN Settle(s, "rejected") ELSE s

\* The 'close' listener (lines 118-131) on the session object.
closeListener(s) ==
  [(IF ~s.isDisconnecting /\ ~s.isConnected THEN Settle(s, "rejected") ELSE s)
     EXCEPT !.isConnected = FALSE]

\* 'error' (lines 109-116) with the onError callback of
\* clientHandler.ts:106-112.  A failed handshake emits 'error' and 'close'
\* in the same tick, so both listeners run before any continuation; an
\* error on an open transport leaves it closing, and 'close' follows later.
WsError(i) ==
  /\ Quiet
  /\ sess[i].listeners
  /\ sess[i].rs \in {"CONNECTING", "OPEN"}
  /\ LET on == ~sess[i].isDisconnecting
         handshake == sess[i].rs = "CONNECTING"
         s1 == errorListener([sess[i] EXCEPT !.rs = IF handshake THEN "CLOSED" ELSE "CLOSING"])
     IN /\ sess' = [sess EXCEPT ![i] = IF handshake THEN closeListener(s1) ELSE s1]
        /\ isSessionActive' = IF handshake /\ on THEN FALSE ELSE isSessionActive
        /\ lastOut' =
             (IF on THEN sendToClient(isClientConnected, Msg("error", "live", i)) ELSE <<>>)
             \o (IF handshake /\ on
                   THEN sendToClient(isClientConnected, Msg("disconnected", "live", i))
                   ELSE <<>>)
  /\ lastAct' = Act("wsError", i)
  /\ lastUp' = <<>>
  /\ batchOpen' = FALSE
  /\ UNCHANGED <<obsVars, fbTried, geminiClient, geminiTextClient, isClientConnected,
                 isInitializing, useTextFallback, clientRS, initPc, liveVars, textVars>>
  /\ wire' = Logged(wire, lastUp')
  /\ UNCHANGED dispVars

\* The peer starts the closing handshake: readyState is CLOSING, and the
\* 'close' event follows later.
WsPeerClosing(i) ==
  /\ Quiet
  /\ sess[i].listeners
  /\ sess[i].rs = "OPEN"
  /\ sess' = [sess EXCEPT ![i].rs = "CLOSING"]
  /\ lastAct' = Act("wsPeerClosing", i)
  /\ lastOut' = <<>>
  /\ lastUp' = <<>>
  /\ batchOpen' = FALSE
  /\ UNCHANGED <<obsVars, fbTried, mgrVars, clientRS, initPc, liveVars, textVars>>
  /\ wire' = Logged(wire, lastUp')
  /\ UNCHANGED dispVars

\* 'close' (lines 118-131) with the onClose callback of
\* clientHandler.ts:114-120, for a transport that was open.
WsClose(i) ==
  /\ Quiet
  /\ sess[i].listeners
  /\ sess[i].rs \in {"OPEN", "CLOSING"}
  /\ LET on == ~sess[i].isDisconnecting
     IN /\ sess' = [sess EXCEPT ![i] = closeListener([sess[i] EXCEPT !.rs = "CLOSED"])]
        /\ isSessionActive' = IF on THEN FALSE ELSE isSessionActive
        /\ lastOut' = IF on THEN sendToClient(isClientConnected, Msg("disconnected", "live", i))
                            ELSE <<>>
  /\ lastAct' = Act("wsClose", i)
  /\ lastUp' = <<>>
  /\ batchOpen' = FALSE
  /\ UNCHANGED <<obsVars, fbTried, geminiClient, geminiTextClient, isClientConnected,
                 isInitializing, useTextFallback, clientRS, initPc, liveVars, textVars>>
  /\ wire' = Logged(wire, lastUp')
  /\ UNCHANGED dispVars

\* The connect timer (lines 134-138).  disconnect() does not clear it.
ConnectTimeout(i) ==
  /\ Quiet
  /\ sess[i].timer
  /\ LET s1 == [sess[i] EXCEPT !.timer = FALSE]
     IN sess' = [sess EXCEPT ![i] = IF ~s1.isConnected THEN Settle(s1, "rejected") ELSE s1]
  /\ lastAct' = Act("connectTimeout", i)
  /\ lastOut' = <<>>
  /\ lastUp' = <<>>
  /\ batchOpen' = FALSE
  /\ UNCHANGED <<obsVars, fbTried, mgrVars, clientRS, initPc, liveVars, textVars>>
  /\ wire' = Logged(wire, lastUp')
  /\ UNCHANGED dispVars

\* ---------------------------------------------------------------------
\* Handlers of client frames (clientHandler.ts:207-277).

\* initializeGemini that sends no connecting status.
CallInitializeSilent(s, act, init, name) ==
  /\ sess' = s
  /\ isSessionActive' = act
  /\ IF ~init
       THEN /\ NextId <= MaxInits
            /\ initPc' = [initPc EXCEPT ![NextId] = "sys1"]
            /\ isInitializing' = TRUE
            /\ lastOut' = <<>>
            /\ lastAct' = Act(name, NextId)
       ELSE /\ UNCHANGED initPc
            /\ isInitializing' = init
            /\ lastOut' = <<>>
            /\ lastAct' = Act(name, 0)

\* initializeGemini up to its first await (lines 38-47), as called by a
\* handler that leaves the session table s and the flags act and init.
\* The model stops creating invocations after MaxInits of them.
CallInitialize(s, act, init, name) ==
  /\ sess' = s
  /\ isSessionActive' = act
  /\ IF ~init
       THEN /\ NextId <= MaxInits
            /\ initPc' = [initPc EXCEPT ![NextId] = "sys1"]
            /\ isInitializing' = TRUE
            /\ lastOut' = sendToClient(isClientConnected, Msg("connecting", "mgr", NextId))
            /\ lastAct' = Act(name, NextId)
       ELSE /\ UNCHANGED initPc
            /\ isInitializing' = init
            /\ lastOut' = <<>>
            /\ lastAct' = Act(name, 0)

\* control/start (lines 213-216)
CtlStart ==
  /\ ClientCanSend
  /\ IF geminiClient = 0 /\ ~isSessionActive /\ ~isInitializing
       THEN CallInitialize(sess, isSessionActive, isInitializing, "start")
       ELSE /\ UNCHANGED <<sess, isSessionActive, isInitializing, initPc>>
            /\ lastOut' = <<>>
            /\ lastAct' = Act("start", 0)
  /\ ctl' = "start"
  /\ lastUp' = <<>>
  /\ batchOpen' = TRUE
  /\ UNCHANGED <<fresh, fbTried, geminiClient, geminiTextClient, isClientConnected,
                 useTextFallback, clientRS, liveVars, textVars>>
  /\ wire' = Logged(wire, lastUp')
  /\ UNCHANGED dispVars

\* control/stop (lines 217-222)
CtlStop ==
  /\ ClientCanSend
  /\ IF geminiClient # 0
       THEN /\ sess' = [sess EXCEPT ![geminiClient] = disconnect(@)]
            /\ geminiClient' = 0
            /\ isSessionActive' = FALSE
       ELSE UNCHANGED <<sess, geminiClient, isSessionActive>>
  /\ ctl' = "stop"
  /\ lastAct' = Act("stop", geminiClient)
  /\ lastOut' = <<>>
  /\ lastUp' = <<>>
  /\ batchOpen' = TRUE
  /\ UNCHANGED <<fresh, fbTried, geminiTextClient, isClientConnected, isInitializing,
                 useTextFallback, clientRS, initPc, liveVars, textVars>>
  /\ wire' = Logged(wire, lastUp')
  /\ UNCHANGED dispVars

\* control/reset (lines 223-230)
CtlReset ==
  /\ ClientCanSend
  /\ CallInitialize(IF geminiClient # 0
                      THEN [sess EXCEPT ![geminiClient] = disconnect(@)]
                      ELSE sess,
                    FALSE, FALSE, "reset")
  /\ geminiClient' = 0
  /\ ctl' = "reset"
  /\ fresh' = (fresh \/ (isSessionActive /\ useTextFallback /\ geminiTextClient # 0))
  /\ lastUp' = <<>>
  /\ batchOpen' = TRUE
  /\ UNCHANGED <<fbTried, geminiTextClient, isClientConnected, useTextFallback, clientRS,
                 liveVars, textVars>>
  /\ wire' = Logged(wire, lastUp')
  /\ UNCHANGED dispVars

\* sendInterrupt writing to the transport without the readyState test of send.
sendInterruptUnguarded(s, i) ==
  IF ~s.isConnected \/ ~s.ws
    THEN <<>>
    ELSE <<Frame("live", i, "client_content", [turns |-> <<>>, turn_complete |-> TRUE])>>

\* GeminiClient.sendInterrupt (geminiClient.ts:286-300)
sendInterrupt(s, i) ==
  IF ~s.isConnected \/ ~s.ws THEN <<>> ELSE send(s, i, "client_content", [turns |-> <<>>, turn_complete |-> TRUE])

\* control/interrupt (lines 231-239)
CtlInterrupt ==
  /\ ClientCanSend
  /\ lastUp' = IF geminiClient # 0 /\ isSessionActive
                 THEN sendInterrupt(sess[geminiClient], geminiClient)
                 ELSE <<>>
  /\ lastAct' = Act("interrupt", geminiClient)
  /\ lastOut' = <<>>
  /\ batchOpen' = TRUE
  /\ UNCHANGED <<obsVars, fbTried, mgrVars, clientRS, initPc, sess, liveVars, textVars>>
  /\ wire' = Logged(wire, lastUp')
  /\ UNCHANGED dispVars

\* The client socket starts closing: readyState is no longer OPEN, and the
\* 'close' event follows later.
ClientClosing ==
  /\ Quiet
  /\ clientRS = "OPEN"
  /\ clientRS' = "CLOSING"
  /\ lastAct' = Act("clientClosing", 0)
  /\ lastOut' = <<>>
  /\ lastUp' = <<>>
  /\ batchOpen' = FALSE
  /\ UNCHANGED <<obsVars, fbTried, mgrVars, initPc, sess, liveVars, textVars>>
  /\ wire' = Logged(wire, lastUp')
  /\ UNCHANGED dispVars

\* clientWs 'close' (lines 280-287)
ClientClose ==
  /\ Quiet
  /\ clientRS # "CLOSED"
  /\ clientRS' = "CLOSED"
  /\ isClientConnected' = FALSE
  /\ IF geminiClient # 0
       THEN sess' = [sess EXCEPT ![geminiClient] = disconnect(@)]
       ELSE UNCHANGED sess
  /\ geminiClient' = 0
  /\ isSessionActive' = FALSE
  /\ lastAct' = Act("clientClose", geminiClient)
  /\ lastOut' = <<>>
  /\ lastUp' = <<>>
  /\ batchOpen' = FALSE
  /\ UNCHANGED <<obsVars, fbTried, geminiTextClient, isInitializing, useTextFallback, initPc,
                 liveVars, textVars>>
  /\ wire' = Logged(wire, lastUp')
  /\ UNCHANGED dispVars

\* A client frame that is not a message of the protocol
\* (clientHandler.ts:207-277).  "syntax": JSON.parse throws and the catch
\* of lines 270-276 answers; "type": the frame parses, its type is none of
\* control, audio and text, and the default branch of lines 267-268 logs a
\* warning.
ClientMalformed(m) ==
  /\ ClientCanSend
  /\ lastOut' = IF m = "syntax"
                  THEN sendToClient(isClientConnected, Msg("error", "mgr", 0))
                  ELSE <<>>
  /\ lastAct' = Act(m, 0)
  /\ lastUp' = <<>>
  /\ batchOpen' = TRUE
  /\ UNCHANGED <<obsVars, fbTried, mgrVars, clientRS, initPc, sess, liveVars, textVars>>
  /\ wire' = Logged(wire, lastUp')
  /\ UNCHANGED dispVars

\* ---------------------------------------------------------------------
\* Tool calls of a Live Session (geminiClient.ts:199-225).

NextFrame == Cardinality({n \in FrameIds : frames[n].id # 0}) + 1

\* sendToolResponse writing to the transport without the readyState test
\* of send.
sendToolResponseUnguarded(s, i, call, payload) ==
  IF ~s.ws THEN <<>> ELSE <<Frame("live", i, "tool_response", <<call, payload>>)>>

\* GeminiClient.sendToolResponse (geminiClient.ts:263-279)
sendToolResponse(s, i, call, payload) ==
  IF ~s.ws THEN <<>> ELSE send(s, i, "tool_response", <<call, payload>>)

\* The onToolCall callback of the session manager (clientHandler.ts:66-104
\* for a Live Session, :141-178 for a Fallback Session): the messages it
\* sends for a call of tool name whose result is res.
onToolCall(kind, i, call, name, res) ==
  sendToClient(isClientConnected, MsgA("tool_call", kind, i, call))
  \o (IF name = "update_itinerary" /\ res = "itinerary"
        THEN sendToClient(isClientConnected, MsgA("itinerary", kind, i, call))
        ELSE <<>>)
  \o (IF name = "poi_search"
        THEN sendToClient(isClientConnected, MsgA("sources", kind, i, call))
        ELSE <<>>)

\* handleFunctionCall without the notification of the catch branch.
handleFunctionCallSilent(o) ==
  IF o = "throw"
    THEN <<[e |-> "sendToolResponse", v |-> "error"]>>
    ELSE <<[e |-> "sendToolResponse", v |-> "result"], [e |-> "onToolCall", v |-> o]>>

\* The try branch with the notification ahead of the response.
dispatchReturnedNotifyFirst(o) ==
  <<[e |-> "onToolCall", v |-> o], [e |-> "sendToolResponse", v |-> "result"]>>

\* The try branch after executeToolCall has returned result o
\* (geminiClient.ts:212-216).
dispatchReturned(o) ==
  <<[e |-> "sendToolResponse", v |-> "result"], [e |-> "onToolCall", v |-> o]>>

\* The catch branch (geminiClient.ts:217-222).
dispatchThrew ==
  <<[e |-> "sendToolResponse", v |-> "error"], [e |-> "onToolCall", v |-> "null"]>>

\* What handleGeminiMessage does, in order, once the dispatch of one
\* function call has ended with outcome o (geminiClient.ts:210-222).
handleFunctionCall(o) ==
  IF o = "throw" THEN dispatchThrew ELSE dispatchReturned(o)

\* The number of notifications in a list of effects that come before the
\* first response.
Early(effs) ==
  Cardinality({j \in 1..Len(effs) :
                 /\ effs[j].e = "onToolCall"
                 /\ \A m \in 1..(j - 1) : effs[m].e # "sendToolResponse"})

\* The effects of one kind in a list of effects.
Only(effs, e) == SelectSeq(effs, LAMBDA x : x.e = e)

RECURSIVE Flatten(_)
Flatten(ss) == IF ss = <<>> THEN <<>> ELSE Head(ss) \o Flatten(Tail(ss))

\* 'message' carrying toolCall (geminiClient.ts:92-97, 200-211): the handler
\* starts the dispatch of the first function call and awaits it.
WsToolCall(i, fcs) ==
  /\ Quiet
  /\ sess[i].listeners
  /\ sess[i].rs = "OPEN"
  /\ sess[i].isConnected
  /\ NextFrame <= MaxFrames
  /\ frames' = [frames EXCEPT ![NextFrame] =
                  [id |-> i, fcs |-> fcs, pos |-> 1, cb |-> [j \in 1..Len(fcs) |-> 0],
                   early |-> 0]]
  /\ lastAct' = Act("wsToolCall", i)
  /\ lastOut' = <<>>
  /\ lastUp' = <<>>
  /\ batchOpen' = FALSE
  /\ UNCHANGED <<obsVars, fbTried, mgrVars, clientRS, initPc, sess, textVars>>
  /\ wire' = Logged(wire, lastUp')
  /\ UNCHANGED dispVars

\* The loop that gives up the remaining function calls when a dispatch
\* has thrown.
nextCallUnlessThrown(fr, o) ==
  IF fr.pos < Len(fr.fcs) /\ o # "throw" THEN fr.pos + 1 ELSE 0

\* The for loop over toolCall.functionCalls (geminiClient.ts:206-224): the
\* position of the call dispatched after the one at fr.pos has ended with
\* outcome o, 0 when that was the last.
nextCall(fr, o) ==
  IF fr.pos < Len(fr.fcs) THEN fr.pos + 1 ELSE 0

\* executeToolCall settles for the function call that frame n is waiting
\* for (geminiClient.ts:211-223); the loop then starts the next dispatch.
ToolDone(n, o) ==
  /\ Quiet
  /\ frames[n].pos > 0
  /\ LET fr == frames[n]
         i == fr.id
         call == <<n, fr.pos>>
         name == fr.fcs[fr.pos]
         effs == handleFunctionCall(o)
         ups == Only(effs, "sendToolResponse")
         cbs == Only(effs, "onToolCall")
     IN /\ o \in Outcomes(name)
        /\ lastUp' = Flatten([j \in 1..Len(ups) |-> sendToolResponse(sess[i], i, call, ups[j].v)])
        /\ lastOut' = Flatten([j \in 1..Len(cbs) |-> onToolCall("live", i, call, name, cbs[j].v)])
        /\ frames' = [frames EXCEPT ![n].cb[fr.pos] = @ + Len(cbs),
                                    ![n].early = @ + Early(effs),
                                    ![n].pos = nextCall(fr, o)]
        /\ lastAct' = Act("toolDone", i)
  /\ batchOpen' = FALSE
  /\ UNCHANGED <<obsVars, fbTried, mgrVars, clientRS, initPc, sess, textVars>>
  /\ wire' = Logged(wire, lastUp')
  /\ UNCHANGED dispVars

\* 'message' carrying serverContent (geminiClient.ts:92-97, 168-197) with
\* the onTextResponse and onAudioResponse callbacks of
\* clientHandler.ts:58-64: a model turn with one text part.
WsServerContent(i) ==
  /\ Quiet
  /\ sess[i].listeners
  /\ sess[i].rs = "OPEN"
  /\ lastOut' = sendToClient(isClientConnected, Msg("transcript", "live", i))
  /\ lastAct' = Act("wsServerContent", i)
  /\ lastUp' = <<>>
  /\ batchOpen' = FALSE
  /\ UNCHANGED <<obsVars, fbTried, mgrVars, clientRS, initPc, sess, liveVars, textVars>>
  /\ wire' = Logged(wire, lastUp')
  /\ UNCHANGED dispVars

\* A catch that gives up the connect promise.
parseFailedRejects(s) == Settle(s, "rejected")

\* The catch of the 'message' listener (geminiClient.ts:104-106): the
\* error is logged.
parseFailed(s) == s

\* 'message' carrying bytes that JSON.parse rejects (geminiClient.ts:92-94,
\* 104-106).
WsMalformed(i) ==
  /\ Quiet
  /\ sess[i].listeners
  /\ sess[i].rs = "OPEN"
  /\ sess' = [sess EXCEPT ![i] = parseFailed(@)]
  /\ lastOut' = <<>>
  /\ lastAct' = Act("wsMalformed", i)
  /\ lastUp' = <<>>
  /\ batchOpen' = FALSE
  /\ UNCHANGED <<obsVars, fbTried, mgrVars, clientRS, initPc, liveVars, textVars>>
  /\ wire' = Logged(wire, lastUp')
  /\ UNCHANGED dispVars

\* ---------------------------------------------------------------------
\* Audio chunks (clientHandler.ts:242-246, geminiClient.ts:228-243).

\* sendAudio without the test of the connected flag.
sendAudioUnguarded(s, i) ==
  IF ~s.ws THEN <<>> ELSE send(s, i, "realtime_input", <<>>)

\* GeminiClient.sendAudio
sendAudio(s, i) ==
  IF ~s.isConnected \/ ~s.ws THEN <<>> ELSE send(s, i, "realtime_input", <<>>)

\* type audio (clientHandler.ts:242-246)
ClientAudio ==
  /\ ClientCanSend
  /\ lastUp' = IF geminiClient # 0 /\ isSessionActive
                 THEN sendAudio(sess[geminiClient], geminiClient)
                 ELSE <<>>
  /\ lastAct' = Act("audio", geminiClient)
  /\ lastOut' = <<>>
  /\ batchOpen' = TRUE
  /\ UNCHANGED <<obsVars, fbTried, mgrVars, clientRS, initPc, sess, liveVars, textVars>>
  /\ wire' = Logged(wire, lastUp')
  /\ UNCHANGED dispVars

\* ---------------------------------------------------------------------
\* Text turns (clientHandler.ts:248-265, geminiClient.ts:245-261,
\* geminiTextClient.ts:40-124).

\* GeminiClient.sendText
sendText(s, i, k) ==
  IF ~s.isConnected \/ ~s.ws
    THEN <<>>
    ELSE send(s, i, "client_content", [turns |-> <<Turn("user", k)>>, turn_complete |-> TRUE])

\* callGeminiAPI: the request carries the history as it is when the call is made.
callGeminiAPI(t, h) == <<Frame("text", t, "generateContent", h)>>

\* Index of the first part that is a function call (Len + 1 when none is).
FirstCall(ps) ==
  IF \E j \in 1..Len(ps) : ps[j] # "text"
    THEN CHOOSE j \in 1..Len(ps) : ps[j] # "text" /\ \A m \in 1..(j - 1) : ps[m] = "text"
    ELSE Len(ps) + 1

\* The loop of sendText over the parts ps of the first response, run to
\* its next await or to its end (geminiTextClient.ts:57-89): text parts
\* are appended as model turns and reported; a function call is
\* dispatched.  h is the history, out the messages sent so far and tr the
\* record of the turn.
RunParts(k, t, ps, h, out, tr) ==
  LET c == FirstCall(ps)
      texts == [j \in 1..(c - 1) |-> Turn("model", k)]
      says == Flatten([j \in 1..(c - 1) |->
                         sendToClient(isClientConnected, MsgA("transcript", "text", t, <<"assistant", k>>))])
  IN /\ hist' = [hist EXCEPT ![t] = h \o texts]
     /\ lastOut' = out \o says
     /\ turns' = [turns EXCEPT ![k] =
                    IF c <= Len(ps)
                      THEN [tr EXCEPT !.pc = "tool", !.cur = ps[c],
                                      !.rest = SubSeq(ps, c + 1, Len(ps)), !.tools = @ + 1]
                      ELSE [tr EXCEPT !.pc = "done", !.cur = "", !.rest = <<>>]]

\* type text (clientHandler.ts:248-265) with the synchronous part of
\* GeminiTextClient.sendText (geminiTextClient.ts:40-48).
ClientText ==
  /\ ClientCanSend
  /\ nText < MaxTexts
  /\ nText' = nText + 1
  /\ LET k == nText + 1
         t == geminiTextClient
     IN IF ~isSessionActive
          THEN /\ lastOut' = <<>>
               /\ lastUp' = <<>>
               /\ UNCHANGED <<hist, turns, fresh>>
          ELSE /\ lastOut' = sendToClient(isClientConnected, MsgA("transcript", "mgr", 0, <<"user", k>>))
               /\ IF useTextFallback /\ t # 0
                    THEN /\ hist' = [hist EXCEPT ![t] = Append(@, Turn("user", k))]
                         /\ turns' = [turns EXCEPT ![k] = [NoTurn EXCEPT !.tc = t, !.pc = "req1"]]
                         /\ lastUp' = callGeminiAPI(t, hist'[t])
                         /\ fresh' = FALSE
                    ELSE /\ lastUp' = IF geminiClient # 0
                                        THEN sendText(sess[geminiClient], geminiClient, k)
                                        ELSE <<>>
                         /\ UNCHANGED <<hist, turns, fresh>>
  /\ lastAct' = Act("text", nText + 1)
  /\ batchOpen' = TRUE
  /\ UNCHANGED <<ctl, fbTried, mgrVars, clientRS, initPc, sess, liveVars>>
  /\ wire' = Logged(wire, lastUp')
  /\ UNCHANGED dispVars

\* A catch that takes the entry of the failed user turn back.
turnFailedRollsBack(h) == SubSeq(h, 1, Len(h) - 1)

\* The history after the catch of sendText (geminiTextClient.ts:91-94):
\* the error is logged and reported.
turnFailed(h) == h

\* The first request of turn k settles (geminiTextClient.ts:48-57, 91-94).
TextResponse(k, r) ==
  /\ Quiet
  /\ turns[k].pc = "req1"
  /\ LET t == turns[k].tc
     IN IF r[1] \in {"fail", "error"}
          THEN /\ lastOut' = sendToClient(isClientConnected, Msg("error", "text", t))
               /\ turns' = [turns EXCEPT ![k].pc = "done",
                                          ![k].errs = @ + 1,
                                          ![k].fail = IF r[1] = "fail" THEN @ + 1 ELSE @]
               /\ hist' = [hist EXCEPT ![t] = turnFailed(@)]
          ELSE RunParts(k, t, IF r[1] = "parts" THEN r[2] ELSE <<>>, hist[t], <<>>, turns[k])
  /\ lastAct' = Act("textResponse", k)
  /\ lastUp' = <<>>
  /\ batchOpen' = FALSE
  /\ UNCHANGED <<obsVars, fbTried, mgrVars, clientRS, initPc, sess, liveVars, nText>>
  /\ wire' = Logged(wire, lastUp')
  /\ UNCHANGED dispVars

\* executeToolCall settles for the function call of turn k
\* (geminiTextClient.ts:75-87), then sendToolResponse appends the function
\* turn and issues the follow-up request (geminiTextClient.ts:97-106).
TextToolDone(k, o) ==
  /\ Quiet
  /\ turns[k].pc = "tool"
  /\ o \in Outcomes(turns[k].cur)
  /\ LET t == turns[k].tc
     IN /\ lastOut' = onToolCall("text", t, <<k>>, turns[k].cur, IF o = "throw" THEN "null" ELSE o)
        /\ hist' = [hist EXCEPT ![t] = Append(@, Turn("function", k))]
        /\ lastUp' = callGeminiAPI(t, hist'[t])
        /\ turns' = [turns EXCEPT ![k].pc = "req2", ![k].follow = @ + 1]
  /\ lastAct' = Act("textToolDone", k)
  /\ batchOpen' = FALSE
  /\ UNCHANGED <<obsVars, fbTried, mgrVars, clientRS, initPc, sess, liveVars, nText>>
  /\ wire' = Logged(wire, lastUp')
  /\ UNCHANGED dispVars

\* The follow-up request of turn k settles (geminiTextClient.ts:106-123):
\* its text parts are appended and reported, its function calls ignored,
\* a failure is logged; then the loop of sendText goes on with the parts
\* of the first response that are left.
TextFollowUp(k, r) ==
  /\ Quiet
  /\ turns[k].pc = "req2"
  /\ LET t == turns[k].tc
         ps == IF r[1] = "parts" THEN SelectSeq(r[2], LAMBDA x : x = "text") ELSE <<>>
         h == hist[t] \o [j \in 1..Len(ps) |-> Turn("model", k)]
         out == Flatten([j \in 1..Len(ps) |->
                           sendToClient(isClientConnected, MsgA("transcript", "text", t, <<"assistant", k>>))])
     IN RunParts(k, t, turns[k].rest, h, out,
                 [turns[k] EXCEPT !.fail = IF r[1] = "fail" THEN @ + 1 ELSE @])
  /\ lastAct' = Act("textFollowUp", k)
  /\ lastUp' = <<>>
  /\ batchOpen' = FALSE
  /\ UNCHANGED <<obsVars, fbTried, mgrVars, clientRS, initPc, sess, liveVars, nText>>
  /\ wire' = Logged(wire, lastUp')
  /\ UNCHANGED dispVars

\* ---------------------------------------------------------------------
\* The tool dispatcher (toolExecutor.ts:13-262) and updateItinerary
\* (toolExecutor.ts:460-539).

Max(a, b) == IF a > b THEN a ELSE b

\* calculateDistance of two coordinate pairs, in km.
calculateDistance(a, b) == IF a > b THEN a - b ELSE b - a

\* estimateTravelTime in the default mode (20 km/h):
\* Math.max(10, Math.ceil(distanceKm / 20 * 60) + 5).
estimateTravelTime(distanceKm) == Max(10, 3 * distanceKm + 5)

\* The travel-time loop over the activities of one day (lines 525-536).
Recalculate(acts) ==
  [j \in 1..Len(acts) |->
     IF j < Len(acts) /\ acts[j].lat # 0 /\ acts[j + 1].lat # 0
       THEN [acts[j] EXCEPT !.travel_time_to_next =
               estimateTravelTime(calculateDistance(acts[j].lat, acts[j + 1].lat))]
       ELSE acts[j]]

\* days.find(d => d.day_number === n): the index of the first such day, 0
\* when there is none.
FindDay(days, n) ==
  IF \E j \in 1..Len(days) : days[j].day_number = n
    THEN CHOOSE j \in 1..Len(days) :
           /\ days[j].day_number = n
           /\ \A m \in 1..(j - 1) : days[m].day_number # n
    ELSE 0

\* days.sort((a, b) => a.day_number - b.day_number), a stable sort.
RECURSIVE SortDays(_, _)
SortDays(days, n) ==
  IF n > MaxDays + 1
    THEN <<>>
    ELSE SelectSeq(days, LAMBDA d : d.day_number = n) \o SortDays(days, n + 1)

\* The activity pushed by add_activity: the fields that are not supplied
\* are absent.
Pushed(a) ==
  [poi_name |-> a.poi_name,
   lat |-> IF a.lat = -1 THEN 0 ELSE a.lat,
   travel_time_to_next |-> IF a.travel_time_to_next = -1 THEN 0 ELSE a.travel_time_to_next]

\* {...old, ...activity} of update_activity.
Merged(old, a) ==
  [poi_name |-> a.poi_name,
   lat |-> IF a.lat = -1 THEN old.lat ELSE a.lat,
   travel_time_to_next |-> IF a.travel_time_to_next = -1 THEN old.travel_time_to_next
                           ELSE a.travel_time_to_next]

\* The switch of updateItinerary (lines 469-522) on the days of the copy.
Edited(days, action, dayNumber, activity) ==
  LET j == FindDay(days, dayNumber)
  IN CASE action = "add_activity" /\ dayNumber # 0 /\ activity # NoActivity ->
            LET ds == IF j = 0
                        THEN SortDays(Append(days, [day_number |-> dayNumber,
                                                    activities |-> <<>>]), 0)
                        ELSE days
            IN [ds EXCEPT ![FindDay(ds, dayNumber)].activities = Append(@, Pushed(activity))]
       [] action = "remove_activity" /\ dayNumber # 0 /\ activity.poi_name # "" /\ j # 0 ->
            [days EXCEPT ![j].activities =
               SelectSeq(@, LAMBDA a : a.poi_name # activity.poi_name)]
       [] action = "update_activity" /\ dayNumber # 0 /\ activity.poi_name # "" /\ j # 0 ->
            LET acts == days[j].activities
                hit == {m \in 1..Len(acts) : acts[m].poi_name = activity.poi_name}
            IN IF hit = {}
                 THEN days
                 ELSE LET m == CHOOSE x \in hit : \A y \in hit : x <= y
                      IN [days EXCEPT ![j].activities[m] = Merged(@, activity)]
       [] action = "clear_day" /\ dayNumber # 0 /\ j # 0 ->
            [days EXCEPT ![j].activities = <<>>]
       [] OTHER -> days

\* updateItinerary (toolExecutor.ts:460-539): the switch, then the
\* travel-time loop over every day of the result.
updateItinerary(itinerary, action, dayNumber, activity) ==
  LET ds == Edited(itinerary.days, action, dayNumber, activity)
  IN [days |-> [j \in 1..Len(ds) |-> [ds[j] EXCEPT !.activities = Recalculate(@)]]]

\* The itinerary_json parameter of update_itinerary: undefined when the
\* call does not carry it, else a string, which is empty, is text that
\* JSON.parse rejects, or is the JSON text of the itinerary value[1].
NoString == [kind |-> "undefined", value |-> <<>>]
Strings ==
  {NoString, [kind |-> "empty", value |-> <<>>], [kind |-> "garbage", value |-> <<>>]}
  \cup {[kind |-> "json", value |-> <<it>>] : it \in SetItineraries}

\* if (params.itinerary_json): undefined and the empty string are falsy.
Truthy(str) == str.kind \notin {"undefined", "empty"}

\* JSON.parse(str): the value of a JSON text, a SyntaxError for the empty
\* string and for text that is not JSON.
JSONparse(str) == [threw |-> str.kind # "json", value |-> str.value]

\* The calls of the dispatcher.  poi_name is the poi_name parameter of
\* update_itinerary, the POI found by poi_search and the from_poi of
\* calculate_travel_time; ext is what the external service of the tool
\* does.
ToolCalls ==
  [name : {"update_itinerary"}, action : {"add_activity", "remove_activity", "clear_day"},
   day_number : 0..MaxDays, poi_name : PoiNames \cup {""}, to_poi : {""},
   full_itinerary : {<<>>}, itinerary_json : {NoString},
   destination : {FALSE}, ext : {"ok"}]
  \cup
  [name : {"update_itinerary"}, action : {"set"},
   day_number : {0}, poi_name : {""}, to_poi : {""},
   full_itinerary : {<<>>} \cup {<<it>> : it \in SetItineraries},
   itinerary_json : {NoString}, destination : {FALSE}, ext : {"ok"}]
  \cup
  [name : {"poi_search", "get_weather"}, action : {""},
   day_number : {0}, poi_name : {"fort"}, to_poi : {""},
   full_itinerary : {<<>>}, itinerary_json : {NoString},
   destination : BOOLEAN, ext : {"ok", "throw"}]
  \cup
  [name : {"calculate_travel_time"}, action : {""},
   day_number : {0}, poi_name : PoiNames, to_poi : PoiNames,
   full_itinerary : {<<>>}, itinerary_json : {NoString},
   destination : {FALSE}, ext : {"ok"}]
  \cup
  [name : {"book_hotel"}, action : {""},
   day_number : {0}, poi_name : {""}, to_poi : {""},
   full_itinerary : {<<>>}, itinerary_json : {NoString},
   destination : {FALSE}, ext : {"ok"}]

\* The update_itinerary calls with the action set and an itinerary_json.
SetCalls ==
  [name : {"update_itinerary"}, action : {"set"},
   day_number : {0}, poi_name : {""}, to_poi : {""},
   full_itinerary : {<<>>} \cup {<<it>> : it \in SetItineraries},
   itinerary_json : Strings, destination : {FALSE}, ext : {"ok"}]

Outcome(cur, coords, success, thrown) ==
  [cur |-> cur, coords |-> coords, success |-> success, thrown |-> thrown]

\* The default branch answering with a success.
unknownToolAccepted(st) == Outcome(st.cur, st.coords, TRUE, FALSE)

\* The default branch of executeToolCall (lines 256-260).
unknownTool(st) == Outcome(st.cur, st.coords, FALSE, FALSE)

\* The update_itinerary branch (lines 49-157).
update_itinerary(st, c) ==
  LET parsed == JSONparse(c.itinerary_json)
      cur1 == IF c.action # "set" THEN st.cur
              ELSE IF Truthy(c.itinerary_json) THEN parsed.value
              ELSE IF c.full_itinerary # <<>> THEN c.full_itinerary
              ELSE st.cur
      cur2 == IF cur1 = <<>> THEN <<[days |-> <<>>]>> ELSE cur1
      activity == IF c.poi_name # ""
                    THEN [poi_name |-> c.poi_name, lat |-> -1, travel_time_to_next |-> -1]
                    ELSE NoActivity
  IN IF c.action = "set" /\ Truthy(c.itinerary_json) /\ parsed.threw
       THEN Outcome(st.cur, st.coords, FALSE, FALSE)
     ELSE IF c.action = "set" /\ cur1 # <<>>
       THEN Outcome(cur1, st.coords, TRUE, FALSE)
       ELSE Outcome(<<updateItinerary(cur2[1], c.action, c.day_number, activity)>>,
                    st.coords, TRUE, FALSE)

\* executeToolCall (toolExecutor.ts:13-262) on the dispatcher state st:
\* the state it leaves and the result it returns or the exception it throws.
executeToolCall(st, c) ==
  CASE c.name = "poi_search" ->
         IF ~c.destination THEN Outcome(st.cur, st.coords, FALSE, FALSE)
         ELSE IF c.ext = "throw" THEN Outcome(st.cur, st.coords, FALSE, TRUE)
         ELSE Outcome(st.cur, st.coords \cup {c.poi_name}, TRUE, FALSE)
    [] c.name = "update_itinerary" -> update_itinerary(st, c)
    [] c.name = "get_weather" ->
         IF ~c.destination THEN Outcome(st.cur, st.coords, FALSE, FALSE)
         ELSE IF c.ext = "throw" THEN Outcome(st.cur, st.coords, FALSE, TRUE)
         ELSE Outcome(st.cur, st.coords, TRUE, FALSE)
    [] c.name = "calculate_travel_time" ->
         Outcome(st.cur, st.coords, {c.poi_name, c.to_poi} \subseteq st.coords, FALSE)
    [] OTHER -> unknownTool(st)

\* The itinerary cur, if any, has at most MaxActs activities a day.
Small(cur) ==
  \A j \in 1..Len(cur) : \A d \in 1..Len(cur[j].days) :
    Len(cur[j].days[d].activities) <= MaxActs

\* A Live or Fallback Session of connection conn calls the dispatcher
\* (geminiClient.ts:211, geminiTextClient.ts:76).
Dispatch(conn, c) ==
  /\ \E r \in {executeToolCall([cur |-> currentItinerary, coords |-> poiCoordinates], c)} :
       /\ Small(r.cur)
       /\ currentItinerary' = r.cur
       /\ poiCoordinates' = r.coords
       /\ lastCall' = [conn |-> conn, name |-> c.name, day |-> 0,
                       success |-> r.success, thrown |-> r.thrown]
  /\ IF conn = "A"
       THEN \E mine \in {executeToolCall([cur |-> own, coords |-> poiCoordinates], c)} :
              /\ Small(mine.cur)
              /\ own' = mine.cur
       ELSE UNCHANGED own
  /\ UNCHANGED bridgeVars

\* updateItinerary is applied to an itinerary, once.
Edit(action, dayNumber, activity) ==
  /\ lastCall = NoCall
  /\ currentItinerary # <<>>
  /\ currentItinerary' = <<updateItinerary(currentItinerary[1], action, dayNumber, activity)>>
  /\ lastCall' = [conn |-> "", name |-> "updateItinerary", day |-> dayNumber,
                  success |-> TRUE, thrown |-> FALSE]
  /\ UNCHANGED <<poiCoordinates, own, bridgeVars>>

\* ---------------------------------------------------------------------
\* Specifications.

\* The initializeGemini invocations.
NextInit ==
  \/ \E i \in Ids : InitCreate(i)
  \/ \E i \in Ids : InitAfterConnect(i)
  \/ \E i \in Ids : InitFallback(i)

\* The transports of the Live Sessions and the connect timers.
NextTransport ==
  \/ \E i \in Ids : WsOpen(i)
  \/ \E i \in Ids : WsSetupComplete(i)
  \/ \E i \in Ids : WsError(i)
  \/ \E i \in Ids : WsPeerClosing(i)
  \/ \E i \in Ids : WsClose(i)
  \/ \E i \in Ids : ConnectTimeout(i)

\* The client socket.
NextClient ==
  \/ CtlStop
  \/ CtlInterrupt
  \/ ClientClosing
  \/ ClientClose

\* Control messages that start a connecting sequence.
NextRestart ==
  \/ CtlStart
  \/ CtlReset

\* Tool calls of the Live Sessions.
NextTools ==
  \/ \E i \in Ids, fcs \in ToolFrames : WsToolCall(i, fcs)
  \/ \E n \in FrameIds, o \in {"itinerary", "plain", "throw"} : ToolDone(n, o)
  \/ \E i \in Ids : WsServerContent(i)

\* Text turns, the fallback endpoint answering with a response of R.
NextText(R) ==
  \/ ClientText
  \/ \E k \in TextIds, r \in R : TextResponse(k, r)
  \/ \E k \in TextIds, o \in {"itinerary", "plain", "throw"} : TextToolDone(k, o)
  \/ \E k \in TextIds, r \in R : TextFollowUp(k, r)

\* The responses of at most one part.
ShortResponses == {r \in Responses : r[1] = "parts" => Len(r[2]) <= 1}

\* The session manager with its Live and Fallback Sessions: control
\* messages, transport events and timers.
Next == NextInit \/ NextTransport \/ NextClient \/ NextRestart

Spec == Init /\ [][Next]_vars

\* One connecting sequence with the tool calls of its Live Session.
NextLive == NextInit \/ NextTransport \/ NextClient \/ NextTools

SpecLive == Init /\ [][NextLive]_vars

\* Text turns in both modes, of a client that sends text and reset, the
\* fallback endpoint answering with at most one part.
NextTurns ==
  NextInit \/ NextTransport \/ CtlReset \/ ClientClose \/ NextText(ShortResponses)

SpecTurns == Init /\ [][NextTurns]_vars

\* The frames written to the transport of a Live Session: one connecting
\* sequence with its setup frame, its tool responses, and the interrupt
\* and audio messages of the client.
NextSend == NextInit \/ NextTransport \/ NextClient \/ NextTools \/ ClientAudio

SpecSend == Init /\ [][NextSend]_vars

\* One connecting sequence with the audio and text messages of the client.
NextTalk == NextInit \/ NextTransport \/ NextClient \/ ClientAudio \/ ClientText

SpecTalk == Init /\ [][NextTalk]_vars

\* Text turns of a connection whose Live transport never answers: the
\* connect timer fires and the Fallback Session takes the turns, the
\* fallback endpoint answering with any response.
NextFallback ==
  NextInit \/ (\E i \in Ids : ConnectTimeout(i)) \/ NextText(Responses)

SpecFallback == Init /\ [][NextFallback]_vars

\* Client frames with audio, text and frames outside the protocol.
NextProtocol ==
  NextInit \/ NextTransport \/ NextClient \/ ClientAudio \/ ClientText
  \/ (\E m \in {"syntax", "type"} : ClientMalformed(m))

SpecProtocol == Init /\ [][NextProtocol]_vars

\* A client that stays connected and sends start, stop and reset.
NextWait == NextInit \/ NextTransport \/ NextRestart \/ CtlStop

\* Continuations of settled promises are microtasks and run; an armed
\* connect timer fires (geminiClient.ts:134-138, never cleared).  Nothing
\* is assumed of the upstream endpoint.
FairWait ==
  \A i \in Ids :
    /\ WF_vars(InitCreate(i))
    /\ WF_vars(InitAfterConnect(i))
    /\ WF_vars(InitFallback(i))
    /\ WF_vars(ConnectTimeout(i))

SpecWait == Init /\ [][NextWait]_vars /\ FairWait

\* The connection right after it has handled a reset in ready live mode:
\* the Live Session it dropped is disconnected and its timer has fired,
\* the new invocation (index 1) is at its first await, and further frames
\* of the same socket read may follow.
InitReset ==
  /\ InitDispatcher
  /\ geminiClient = 0
  /\ geminiTextClient = 0
  /\ isSessionActive = FALSE
  /\ isClientConnected = TRUE
  /\ isInitializing = TRUE
  /\ useTextFallback = FALSE
  /\ clientRS = "OPEN"
  /\ initPc = [i \in Ids |-> IF i = 1 THEN "sys1" ELSE "none"]
  /\ sess = [i \in Ids |-> NoSession]
  /\ batchOpen = TRUE
  /\ frames = [n \in FrameIds |-> NoFrame]
  /\ hist = [i \in Ids |-> <<>>]
  /\ turns = [k \in TextIds |-> NoTurn]
  /\ nText = 0
  /\ ctl = "reset"
  /\ fresh = FALSE
  /\ fbTried = [i \in Ids |-> 0]
  /\ lastAct = Act("reset", 1)
  /\ lastOut = <<Msg("connecting", "mgr", 1)>>
  /\ lastUp = <<>>
  /\ wire = [i \in Ids |-> [setups |-> 0, first |-> "none"]]

\* The client socket closing after resets.
NextClose == NextInit \/ NextTransport \/ CtlReset \/ ClientClose

SpecClose == InitReset /\ [][NextClose]_vars

\* Inbound frames of a Live Session: setupComplete, model content and
\* bytes that do not parse.
NextDecode ==
  NextInit \/ NextTransport \/ NextClient
  \/ (\E i \in Ids : WsServerContent(i))
  \/ (\E i \in Ids : WsMalformed(i))

SpecDecode == Init /\ [][NextDecode]_vars

\* Text turns of a connection whose Live Session timed out, the fallback
\* endpoint answering with at most one part.
NextHistory ==
  NextInit \/ (\E i \in Ids : ConnectTimeout(i)) \/ NextText(ShortResponses)

SpecHistory == Init /\ [][NextHistory]_vars

\* One connecting sequence with model content, text turns and the tool
\* calls of the Fallback Session, of a client whose socket closes at any
\* time.
NextAfterClose ==
  NextInit \/ NextTransport \/ (\E i \in Ids : WsServerContent(i))
  \/ NextText(ShortResponses) \/ ClientClose

SpecAfterClose == Init /\ [][NextAfterClose]_vars

\* The calls one connection makes to the dispatcher.
NextDispatch == \E c \in ToolCalls : Dispatch("A", c)

SpecDispatch == Init /\ [][NextDispatch]_vars

\* The update_itinerary calls two connections make to the dispatcher.
NextShared ==
  \E conn \in Conns : \E c \in {x \in ToolCalls : x.name = "update_itinerary"} :
    Dispatch(conn, c)

SpecShared == Init /\ [][NextShared]_vars

\* The update_itinerary calls of one connection, the action set with any
\* itinerary_json.
NextSet ==
  \E c \in SetCalls \cup {x \in ToolCalls : x.name = "update_itinerary"} :
    Dispatch("A", c)

SpecSet == Init /\ [][NextSet]_vars

\* updateItinerary applied once to each itinerary of the bounded domain.
InitEdit ==
  /\ InitManager
  /\ currentItinerary \in {<<it>> : it \in Itineraries}
  /\ poiCoordinates = {}
  /\ own = <<>>
  /\ lastCall = NoCall

NextEdit ==
  \E action \in {"add_activity", "remove_activity", "update_activity", "clear_day"} :
    \E dayNumber \in 0..MaxDays : \E activity \in Partials \cup {NoActivity} :
      Edit(action, dayNumber, activity)

SpecEdit == InitEdit /\ [][NextEdit]_vars

\* ---------------------------------------------------------------------
\* Properties.

\* mode=fallback: client text turns go to the Fallback Session.
FallbackMode == useTextFallback /\ geminiTextClient # 0

FallbackReady == isSessionActive /\ FallbackMode

\* mode=live and state=ready, as the session manager sees them.
LiveReady == isSessionActive /\ geminiClient # 0 /\ ~FallbackMode

\* The frame of sendInterrupt for Live Session i.
InterruptFrame(i) ==
  Frame("live", i, "client_content", [turns |-> <<>>, turn_complete |-> TRUE])

Sent(out, t) == \E j \in 1..Len(out) : out[j].t = t

\* C1: whenever a Fallback Session exists and the connection is ready, the
\* Live Session it replaced (the one of the same connecting sequence) can
\* deliver no callback any more: its listeners are detached, or its
\* transport is closed.
C1_OneUpstreamSession ==
  (geminiTextClient # 0 /\ isSessionActive) =>
    \/ ~sess[geminiTextClient].listeners
    \/ sess[geminiTextClient].rs = "CLOSED"

\* C2: a connecting sequence whose connect() failed while the client is
\* connected enters the fallback construction exactly once, and the step
\* that made connect() fail has sent no error to the client before the
\* construction is attempted.
C2_FallbackBeforeError ==
  \A i \in Ids :
    /\ fbTried[i] <= 1
    /\ (initPc[i] = "done" /\ sess[i].promise = "rejected" /\ isClientConnected)
         => fbTried[i] = 1
    /\ (initPc[i] = "connect" /\ sess[i].promise = "rejected") => ~Sent(lastOut, "error")

\* The Fallback Session is ready and the Live Session the manager holds is
\* the failed one it replaced: no stop, reset or close has been handled
\* since the construction.
FallbackSettled == FallbackReady /\ geminiClient = geminiTextClient

\* C3: once the fallback is ready, it stays ready with mode=fallback, and
\* every client text turn is sent to the Fallback Session, whatever step
\* is taken other than a stop, a reset or the close of the client socket.
C3_FallbackStays ==
  [][(FallbackSettled /\ lastAct'.a \notin {"stop", "reset", "clientClose"}) =>
       /\ FallbackSettled'
       /\ lastAct'.a = "text" =>
            (Len(lastUp') = 1 /\ lastUp'[1].kind = "text" /\ lastUp'[1].id = geminiTextClient)]_vars

\* C4: an interrupt handled while mode=fallback sends no frame upstream.
C4_InterruptFallbackSilent ==
  (lastAct.a = "interrupt" /\ FallbackMode) => lastUp = <<>>

\* C5 as stated: an interrupt handled while mode=live and state=ready
\* sends exactly one frame upstream, the turn-complete frame without turns.
C5_InterruptOneFrame ==
  (lastAct.a = "interrupt" /\ LiveReady) => lastUp = <<InterruptFrame(geminiClient)>>

\* C5 as amended: an interrupt handled while mode=live and state=ready
\* changes no session state and sends the turn-complete frame without
\* turns, once, when the Live Session held by the manager is connected and
\* its transport is open, and sends no frame otherwise.
C5_InterruptLive ==
  [][(lastAct'.a = "interrupt" /\ LiveReady) =>
       /\ UNCHANGED <<mgrVars, sess, initPc, frames, hist, turns>>
       /\ lastUp' = IF sess[geminiClient].isConnected /\ sess[geminiClient].rs = "OPEN"
                      THEN <<InterruptFrame(geminiClient)>>
                      ELSE <<>>]_vars

\* An interrupt was handled in live ready mode and its frame was sent.
C5_Witness ==
  lastAct.a = "interrupt" /\ LiveReady /\ lastUp = <<InterruptFrame(geminiClient)>>

\* C6: for every function call of a tool-call frame, the tool-call callback
\* has been invoked exactly once when the dispatch of the call has ended,
\* with a result or with an exception, and not at all before.
C6_CallbackOnce ==
  \A n \in FrameIds :
    frames[n].id # 0 =>
      \A j \in 1..Len(frames[n].fcs) :
        frames[n].cb[j] = IF frames[n].pos = 0 \/ j < frames[n].pos THEN 1 ELSE 0

\* A frame of MaxCalls function calls has been handled to its end, and the
\* dispatch of its last call failed.
C6_Witness ==
  \E n \in FrameIds :
    /\ frames[n].id # 0
    /\ Len(frames[n].fcs) = MaxCalls
    /\ frames[n].pos = 0
    /\ lastAct.a = "toolDone"
    /\ lastUp = <<Frame("live", frames[n].id, "tool_response", <<<<n, MaxCalls>>, "error">>)>>

\* C7: no message that originates from a Live Session is sent to the
\* client once the manager has called disconnect() on that session.
C7_NoEventAfterDisconnect ==
  \A j \in 1..Len(lastOut) :
    lastOut[j].kind = "live" => ~sess[lastOut[j].id].isDisconnecting

\* C8: while stop is the last of start, stop and reset that was handled,
\* the connection is idle: no session is created, the session is not
\* active and no ready status is sent.
C8_StopStaysIdle ==
  ctl = "stop" =>
    /\ ~isSessionActive
    /\ ~Sent(lastOut, "ready")
    /\ lastAct.a # "initFallback"
    /\ ~(lastAct.a = "initCreate" /\ geminiClient = lastAct.id)

\* C9: after a reset, once the connect() of the new Live Session has
\* resolved, a client text turn is sent to that Live Session and no
\* request is made to a Fallback Session.
C9_ResetUsesLive ==
  (/\ lastAct.a = "text"
   /\ ctl = "reset"
   /\ isSessionActive
   /\ geminiClient # 0
   /\ sess[geminiClient].isConnected
   /\ sess[geminiClient].promise = "resolved")
  => \A j \in 1..Len(lastUp) : lastUp[j].kind = "live" /\ lastUp[j].id = geminiClient

\* C10: after a reset handled in ready fallback mode, the first request
\* made to a Fallback Session for a new user turn carries a history that
\* holds this user turn only.
C10_ResetDiscardsHistory ==
  [][(/\ fresh
      /\ lastAct'.a = "text"
      /\ Len(lastUp') > 0
      /\ lastUp'[1].kind = "text")
     => lastUp'[1].arg = <<Turn("user", nText')>>]_vars

\* C11: a client text message handled while the connecting sequence is in
\* progress and the session is not yet active is not dropped silently: the
\* handler sends a message to the client or a frame upstream.  (The
\* handler keeps no buffer, so a text that is not forwarded by its own
\* handler is never forwarded.)
C11_TextBeforeReady ==
  (lastAct.a = "text" /\ isInitializing /\ ~isSessionActive) =>
    (lastOut # <<>> \/ lastUp # <<>>)

\* C12: in the history of every Fallback Session, the entry that follows a
\* function turn is a model turn.
C12_ModelAfterFunction ==
  \A t \in Ids : \A j \in 1..(Len(hist[t]) - 1) :
    hist[t][j].role = "function" => hist[t][j + 1].role = "model"

\* C13: in the history of every Fallback Session, every function turn is
\* immediately preceded by a model turn of the same user turn (the model
\* turn that would carry the function call).
C13_ModelBeforeFunction ==
  \A t \in Ids : \A j \in 1..Len(hist[t]) :
    hist[t][j].role = "function" =>
      (j > 1 /\ hist[t][j - 1].role = "model" /\ hist[t][j - 1].n = hist[t][j].n)

ToolCallEvents(out) == SelectSeq(out, LAMBDA m : m.t = "tool_call")

\* C14 as stated: while the client connection is open, each time the
\* dispatch of a call of a frame of two function calls has ended, one
\* tool_response frame was sent upstream and one tool_call event was sent
\* to the client, so that two replies and two events are sent for the
\* frame.
C14_TwoRepliesTwoEvents ==
  (/\ lastAct.a = "toolDone"
   /\ isClientConnected
   /\ clientRS = "OPEN"
   /\ \A n \in FrameIds : frames[n].id # 0 => Len(frames[n].fcs) = 2) =>
    (Len(lastUp) = 1 /\ Len(ToolCallEvents(lastOut)) = 1)

\* C14 as amended: the function calls of a frame are dispatched in the
\* order of the request, and when the dispatch of a call ends, with a
\* result or with an exception, the Live Session sends one tool_response
\* frame for that call if it still holds its transport and the transport
\* is open, and none otherwise, and the client is sent one tool_call event
\* for that call, first of the step's messages, if the client connection is
\* open, and none otherwise; so the replies and the events of one frame
\* are in the order of its calls.
C14_RepliesInOrder ==
  [][lastAct'.a = "toolDone" =>
       \E n \in FrameIds :
         /\ frames[n].pos > 0
         /\ frames'[n] # frames[n]
         /\ LET i == frames[n].id
                p == frames[n].pos
            IN /\ frames'[n].pos = IF p < Len(frames[n].fcs) THEN p + 1 ELSE 0
               /\ IF sess[i].ws /\ sess[i].rs = "OPEN"
                    THEN /\ Len(lastUp') = 1
                         /\ lastUp'[1].kind = "live" /\ lastUp'[1].id = i
                         /\ lastUp'[1].f = "tool_response"
                         /\ lastUp'[1].arg[1] = <<n, p>>
                    ELSE lastUp' = <<>>
               /\ IF isClientConnected /\ clientRS = "OPEN"
                    THEN /\ Len(ToolCallEvents(lastOut')) = 1
                         /\ lastOut'[1] = MsgA("tool_call", "live", i, <<n, p>>)
                    ELSE lastOut' = <<>>]_vars

\* The second dispatch of a frame of two function calls has failed, and
\* its error reply and its event were sent.
C14_Witness ==
  \E n \in FrameIds :
    /\ Len(frames[n].fcs) = 2
    /\ frames[n].pos = 0
    /\ lastAct = Act("toolDone", frames[n].id)
    /\ Len(lastUp) = 1
    /\ lastUp[1].arg = <<<<n, 2>>, "error">>
    /\ Len(ToolCallEvents(lastOut)) = 1
    /\ lastOut[1].arg = <<n, 2>>

\* C15: a Live Session handles an inbound frame of model content or of
\* tool calls only while none of its earlier tool dispatches is
\* outstanding.
C15_NoFrameDuringDispatch ==
  lastAct.a \in {"wsServerContent", "wsToolCall"} =>
    \A n \in FrameIds :
      (frames[n].id = lastAct.id /\ frames[n].pos > 0) =>
        (lastAct.a = "wsToolCall" /\ n = NextFrame - 1)

C17_SendNeedsConnected ==
  [][/\ \A i \in Ids :
          ~sess'[i].isConnected =>
            /\ sendAudio(sess'[i], i) = <<>>
            /\ \A k \in TextIds : sendText(sess'[i], i, k) = <<>>
     /\ lastAct'.a \in {"audio", "text"} =>
          /\ sess' = sess
          /\ \A j \in 1..Len(lastUp') :
               lastUp'[j].kind = "live" => sess[lastUp'[j].id].isConnected]_vars

\* sendAudio was called on a Live Session that is not connected and whose
\* transport is open, and sent nothing.
C17_Witness ==
  /\ lastAct.a = "audio"
  /\ isSessionActive
  /\ geminiClient # 0
  /\ lastAct.id = geminiClient
  /\ ~sess[geminiClient].isConnected
  /\ sess[geminiClient].ws
  /\ sess[geminiClient].rs = "OPEN"
  /\ lastUp = <<>>

\* C18: every transport of a Live Session has carried at most one setup
\* frame, exactly one once it is open, and no frame of another kind before
\* its setup frame.
C18_SetupFirst ==
  \A i \in Ids :
    /\ wire[i].setups <= 1
    /\ wire[i].first \in {"none", "setup"}
    /\ sess[i].rs = "OPEN" => wire[i].setups = 1
    /\ wire[i].first = "setup" <=> wire[i].setups = 1

\* A tool_response frame is sent on a transport that has carried its
\* setup frame.
C18_Witness ==
  /\ Len(lastUp) = 1
  /\ lastUp[1].kind = "live"
  /\ lastUp[1].f = "tool_response"
  /\ wire[lastUp[1].id] = [setups |-> 1, first |-> "setup"]

\* C19: for every user turn of a Fallback Session, at most one tool is
\* dispatched and at most one follow-up request is issued.
C19_OneRoundTrip ==
  \A k \in TextIds : turns[k].tools <= 1 /\ turns[k].follow <= 1

\* C20: a user turn of a Fallback Session in which a request failed has
\* ended, no other request of the turn failed, and the error callback was
\* invoked once for it.
C20_FailureAbortsTurn ==
  \A k \in TextIds :
    turns[k].fail > 0 =>
      (turns[k].pc = "done" /\ turns[k].fail = 1 /\ turns[k].errs = 1)

\* C21: every client frame that is not a message of the protocol (it does
\* not parse, or its type is none of control, audio and text) is answered
\* with exactly one error event, and leaves the client socket open and the
\* state of the session manager and of its sessions as they were.
C21_MalformedAnswered ==
  [][lastAct'.a \in {"syntax", "type"} =>
       /\ Len(lastOut') = 1
       /\ lastOut'[1].t = "error"
       /\ UNCHANGED <<mgrVars, clientRS, initPc, sess, liveVars, textVars>>]_vars

\* C22: for a client that stays connected, every connecting status is
\* eventually followed by a ready status, a disconnected status or an
\* error event, also when stop and reset are handled during the connecting
\* sequence.
C22_ConnectingAnswered ==
  Sent(lastOut, "connecting") ~>
    (Sent(lastOut, "ready") \/ Sent(lastOut, "disconnected") \/ Sent(lastOut, "error"))

\* A reset was handled before the first Live Session had connected, and
\* the connecting sequence it started has sent ready.
C22_Witness ==
  /\ ctl = "reset"
  /\ sess[1].isDisconnecting
  /\ sess[1].promise # "resolved"
  /\ lastAct.id = 2
  /\ Sent(lastOut, "ready")

\* C23: whenever the session manager enters or leaves the ready state
\* while the client connection is open, the step sends the client a status
\* or an error event.
C23_TransitionsReported ==
  [][(isSessionActive' # isSessionActive /\ isClientConnected' /\ clientRS' = "OPEN") =>
       \E j \in 1..Len(lastOut') :
         lastOut'[j].t \in {"connecting", "ready", "disconnected", "error"}]_vars

\* C24: once the client socket has closed, no session is active, every
\* Live Session that was created has been disconnected or has a closed
\* transport, and no Live or Fallback Session is created.
C24_ClosedStaysClosed ==
  [][~isClientConnected' =>
       /\ ~isSessionActive'
       /\ \A i \in Ids :
            sess'[i].rs # "NONE" => (sess'[i].isDisconnecting \/ sess'[i].rs = "CLOSED")
       /\ ~isClientConnected =>
            /\ \A i \in Ids : sess[i].rs = "NONE" => sess'[i].rs = "NONE"
            /\ geminiTextClient' = geminiTextClient]_vars

\* C25: the itinerary an update_itinerary call of connection A returns is
\* the one A's own calls produce, whatever the calls of connection B.
C25_ItineraryPerConnection ==
  (lastCall.conn = "A" /\ lastCall.name = "update_itinerary" /\ lastCall.success) =>
    currentItinerary = own

\* C26: while the dispatch of a function call is outstanding, the tool-call
\* callback of that call has already been invoked.
C26_EventBeforeResult ==
  \A n \in FrameIds :
    frames[n].pos > 0 => frames[n].cb[frames[n].pos] > 0

\* C27: a call of the dispatcher with a tool name that is not registered
\* ends in a failure, and leaves the current itinerary and the table of
\* POI coordinates as they were.
C27_UnknownToolFails ==
  [][lastCall'.name = "book_hotel" =>
       /\ ~lastCall'.success
       /\ UNCHANGED <<currentItinerary, poiCoordinates>>]_vars

\* The dispatcher holds an itinerary and coordinates, and its last call
\* named a tool that is not registered.
C27_Witness ==
  /\ lastCall.name = "book_hotel"
  /\ currentItinerary # <<>>
  /\ currentItinerary[1].days # <<>>
  /\ poiCoordinates # {}

\* The days of an itinerary that carry day number n, in their order.
DaysNumbered(itinerary, n) == SelectSeq(itinerary.days, LAMBDA d : d.day_number = n)

\* C28: updateItinerary with add_activity, remove_activity, update_activity
\* or clear_day and day number N returns an itinerary in which every day
\* whose number differs from N is as it was in the input.
C28_OtherDaysUntouched ==
  [][(lastCall'.name = "updateItinerary" /\ lastCall'.day # 0) =>
       \A n \in DayNumbers \ {lastCall'.day} :
         DaysNumbered(currentItinerary'[1], n) = DaysNumbered(currentItinerary[1], n)]_vars

\* C29: when the dispatch of a function call of a Live Session has ended,
\* with a result or with an exception, no tool-call callback is invoked
\* before the tool_response of the call has been handed to the transport,
\* and the frame that is sent carries the id of the call the callback
\* reports.
C29_ResponseBeforeCallback ==
  /\ \A n \in FrameIds : frames[n].early = 0
  /\ lastAct.a = "toolDone" =>
       \A j \in 1..Len(lastUp) : \A m \in 1..Len(lastOut) :
         (lastUp[j].f = "tool_response" /\ lastOut[m].t = "tool_call") =>
           lastUp[j].arg[1] = lastOut[m].arg

\* The dispatch of the first call of a frame has returned, and its
\* tool_response and its tool_call event were both sent.
C29_Witness ==
  \E n \in FrameIds :
    /\ lastAct = Act("toolDone", frames[n].id)
    /\ frames[n].cb[1] = 1
    /\ Len(lastUp) = 1
    /\ lastUp[1].arg = <<<<n, 1>>, "result">>
    /\ Len(ToolCallEvents(lastOut)) = 1
    /\ lastOut[1].arg = <<n, 1>>

\* C30: the setup-complete callback of a Live Session is invoked only
\* while the connected flag of the session is not yet set, hence at most
\* once between the construction of the session and the close of its
\* transport or its disconnect().
C30_SetupCompleteOnce ==
  [][\A i \in Ids : lastAct' = Act("wsSetupComplete", i) => ~sess[i].isConnected]_vars

\* C31: when the dispatch of a function call of a Live Session has failed
\* and the error reply was written to the transport, the step leaves the
\* session and the session manager as they were, and the next function
\* call of the same frame, if any, is dispatched.
C31_FailureKeepsSession ==
  [][(lastAct'.a = "toolDone" /\ lastUp' # <<>> /\ lastUp'[1].arg[2] = "error") =>
       /\ UNCHANGED <<sess, mgrVars, clientRS>>
       /\ \E n \in FrameIds :
            /\ lastUp'[1].arg[1] = <<n, frames[n].pos>>
            /\ frames'[n].pos = IF frames[n].pos < Len(frames[n].fcs)
                                  THEN frames[n].pos + 1 ELSE 0]_vars

\* The dispatch of the first call of a frame of two function calls has
\* failed, the error reply was sent, the session is connected and the
\* dispatch of the second call is outstanding.
C31_Witness ==
  \E n \in FrameIds :
    /\ Len(frames[n].fcs) = 2
    /\ frames[n].pos = 2
    /\ lastAct = Act("toolDone", frames[n].id)
    /\ Len(lastUp) = 1
    /\ lastUp[1].arg = <<<<n, 1>>, "error">>
    /\ sess[frames[n].id].isConnected
    /\ sess[frames[n].id].rs = "OPEN"

\* C32: a start handled while no session is held, no session is active
\* and the manager is not initializing sends a connecting status and
\* starts an initializeGemini invocation, whose continuation creates a
\* Live Session and calls connect() while the client is connected; a start
\* handled in any other state sends nothing and changes nothing.
C32_StartReconnects ==
  [][/\ lastAct'.a = "start" =>
          IF geminiClient = 0 /\ ~isSessionActive /\ ~isInitializing
            THEN /\ lastOut' = <<Msg("connecting", "mgr", lastAct'.id)>>
                 /\ initPc[lastAct'.id] = "none"
                 /\ initPc'[lastAct'.id] = "sys1"
                 /\ isInitializing'
                 /\ UNCHANGED <<sess, geminiClient, geminiTextClient, isSessionActive>>
            ELSE /\ lastOut' = <<>>
                 /\ UNCHANGED <<sess, initPc, mgrVars>>
     /\ \A i \in Ids :
          (lastAct' = Act("initCreate", i) /\ isClientConnected) =>
            (sess[i] = NoSession /\ sess'[i] = NewSession /\ geminiClient' = i)]_vars

\* A start was handled after a stop had left the connection idle: the
\* connecting status was sent and the invocation is at its first await.
C32_Witness ==
  /\ lastAct = Act("start", 2)
  /\ lastOut = <<Msg("connecting", "mgr", 2)>>
  /\ sess[1].isDisconnecting
  /\ initPc[2] = "sys1"
  /\ geminiClient = 0

\* C33: when a Live Session receives a frame that does not parse, it sends
\* nothing to the client and nothing upstream, and it leaves the session
\* (its connected flag, its connect promise, its transport and listeners)
\* and the session manager as they were, so that later frames are handled
\* as if the frame had not arrived.
C33_MalformedDropped ==
  [][lastAct'.a = "wsMalformed" =>
       /\ lastOut' = <<>>
       /\ lastUp' = <<>>
       /\ UNCHANGED <<sess, mgrVars, clientRS, initPc, liveVars, textVars, wire>>]_vars

\* A frame that does not parse has arrived on an open transport whose
\* setupComplete is still awaited.
C33_Witness ==
  \E i \in Ids :
    /\ lastAct = Act("wsMalformed", i)
    /\ sess[i].rs = "OPEN"
    /\ sess[i].promise = "pending"
    /\ ~sess[i].isConnected

\* C34: the conversation history of a Fallback Session only grows: every
\* step leaves the entries it held in place and in order, also the step
\* in which a request fails, and the request issued for a user turn
\* carries the whole history, the entries of failed turns included.
C34_HistoryAppendOnly ==
  [][/\ \A t \in Ids :
          /\ Len(hist'[t]) >= Len(hist[t])
          /\ SubSeq(hist'[t], 1, Len(hist[t])) = hist[t]
     /\ (lastAct'.a = "text" /\ lastUp' # <<>> /\ lastUp'[1].kind = "text") =>
          /\ lastUp'[1].arg = hist'[lastUp'[1].id]
          /\ lastUp'[1].arg = Append(hist[lastUp'[1].id], Turn("user", lastAct'.id))]_vars

\* The first user turn failed, and the request of the second user turn
\* carries the user entry of the first.
C34_Witness ==
  /\ lastAct = Act("text", 2)
  /\ turns[1].errs = 1
  /\ Len(lastUp) = 1
  /\ lastUp[1].kind = "text"
  /\ lastUp[1].arg = <<Turn("user", 1), Turn("user", 2)>>

\* Invocation i of initializeGemini has been superseded by a reset: the
\* Live Session it waits on was disconnected, a later invocation exists and
\* reset is the last control message that was handled.
Superseded(i) ==
  /\ sess[i].isDisconnecting
  /\ ctl = "reset"
  /\ \E j \in Ids : j > i /\ initPc[j] # "none"

\* C35: a step of an initializeGemini invocation that a reset has
\* superseded changes neither the mode, nor the Fallback Session, nor the
\* active flag, and sends no ready status.
C35_SupersededIsInert ==
  [][\A i \in Ids :
       (Superseded(i) /\ lastAct'.id = i
        /\ lastAct'.a \in {"initCatch", "initDone", "initFallback"}) =>
         /\ UNCHANGED <<useTextFallback, geminiTextClient, isSessionActive>>
         /\ ~Sent(lastOut', "ready")]_vars

\* C36: whenever the handler of a client text message has echoed the
\* message as a user transcript, it has also sent it upstream, in one
\* frame or request: to the Fallback Session in fallback mode, to the
\* Live Session otherwise.
C36_EchoedTextForwarded ==
  (lastAct.a = "text" /\ Sent(lastOut, "transcript")) =>
    /\ Len(lastUp) = 1
    /\ lastUp[1].kind = IF FallbackMode THEN "text" ELSE "live"

\* C37: when a client text message is handed to a Fallback Session (its
\* user turn is appended and its request is issued), every earlier turn of
\* that session has finished, and the entries of the history are in the
\* order of their turns.
C37_OneTurnAtATime ==
  /\ (lastAct.a = "text" /\ lastUp # <<>> /\ lastUp[1].kind = "text") =>
       \A k \in TextIds :
         (k < lastAct.id /\ turns[k].tc = lastUp[1].id) => turns[k].pc = "done"
  /\ \A t \in Ids : \A j \in 1..(Len(hist[t]) - 1) : hist[t][j].n <= hist[t][j + 1].n

\* C38: once the close event of the client socket has been handled, no
\* step sends a message to the client.
C38_SilentAfterClose ==
  ~isClientConnected => lastOut = <<>>

\* The client socket has closed, and afterwards a request of a Fallback
\* Session has been answered with a text part.
C38_Witness ==
  /\ ~isClientConnected
  /\ lastAct.a = "textResponse"
  /\ \E t \in Ids : Len(hist[t]) >= 2

\* C39: an update_itinerary call with the action set whose itinerary_json
\* is a string that is not valid JSON returns success=false and leaves
\* the current itinerary as it was.
C39_InvalidJsonRejected ==
  [][\A c \in SetCalls :
       (c.itinerary_json.kind # "undefined" /\ JSONparse(c.itinerary_json).threw
          /\ Dispatch("A", c))
         => (~lastCall'.success /\ currentItinerary' = currentItinerary)]_vars

\* The same of the strings that are not empty.
NonEmptyInvalidJsonRejected ==
  [][\A c \in SetCalls :
       (c.itinerary_json.kind = "garbage" /\ Dispatch("A", c))
         => (~lastCall'.success /\ currentItinerary' = currentItinerary)]_vars

====
